---- MODULE Spec2Model ----
(***************************************************************************)
(* dejaVU: the activity-log pipeline.                                      *)
(*                                                                         *)
(* Two watchers poll the foreground window and append to one JSON file:    *)
(* the standalone script src/watcher.py ("sw") and the GUI's WatcherThread *)
(* in src/gui.py ("gw").  The GUI main thread clears the file              *)
(* (clear_history) and re-reads it on a timer (update_ui).                 *)
(*                                                                         *)
(* A step of the model is one file-system call or one stretch of purely    *)
(* local computation, so that the unlocked read-modify-write of an append  *)
(* can interleave with the other processes the way it does on disk.        *)
(***************************************************************************)
EXTENDS Integers, Sequences, FiniteSets, TLC

(***************************************************************************)
(* Program constants                                                       *)
(***************************************************************************)
MAX_LOG_ENTRIES == 200

(***************************************************************************)
(* Bounds of the exploration                                               *)
(***************************************************************************)
MaxPolls  == 3      \* probes made by a watcher that runs alone
MaxRacingPolls == 2 \* probes made, in all, by watchers that run together
MaxFaults == 1      \* injected failures (I/O errors, win32 errors, deletions)
MaxPieces == 4      \* pieces of a title given to normalize_window_title
MaxHead   == 3      \* freely chosen newest entries of a log shown by the GUI
MaxCycles == 3      \* calls of on_cycle_history
MaxEmits  == 2      \* emissions of a hotkey while its main key is down

W  == {"sw", "gw"}
SW == "sw"
GW == "gw"

(***************************************************************************)
(* The environment: foreground windows and what the three probe calls      *)
(* (GetForegroundWindow, GetWindowText, psutil.Process(pid).name()) give.  *)
(***************************************************************************)
NoSuchProcess == "NoSuchProcess"
AccessDenied  == "AccessDenied"

Desktop ==
    { [hwnd |-> 0, title |-> "",        process |-> "System Idle Process"],
      [hwnd |-> 1, title |-> "Notepad", process |-> "notepad.exe"],
      [hwnd |-> 2, title |-> "Calc",    process |-> "calc.exe"] }

\* what one poll can obtain: a window and the outcome of the name lookup, or
\* an error raised by one of the win32 calls
ProbeOutcomes ==
    { [error |-> FALSE, hwnd |-> win.hwnd, title |-> win.title, lookup |-> l] :
        win \in Desktop, l \in {"name", NoSuchProcess, AccessDenied} }
    \cup { [error |-> TRUE, hwnd |-> 0, title |-> "", lookup |-> "name"] }

ProcessOf(h) == (CHOOSE win \in Desktop : win.hwnd = h).process

(***************************************************************************)
(* The log file                                                            *)
(***************************************************************************)
\* kind "missing": no such file; "malformed": not parseable as JSON (empty
\* after truncation, a partial dump, garbage); "ok": a JSON list of entries
Missing      == [kind |-> "missing",   content |-> <<>>, mtime |-> 0]
Malformed(t) == [kind |-> "malformed", content |-> <<>>, mtime |-> t]
Stored(l, t) == [kind |-> "ok",        content |-> l,    mtime |-> t]

\* entries left by earlier runs; index 1 is the newest
OldEntry(i) ==
    [timestamp |-> 0 - i,
     title     |-> IF i % 2 = 1 THEN "Notepad" ELSE "Calc",
     process   |-> IF i % 2 = 1 THEN "notepad.exe" ELSE "calc.exe",
     hwnd      |-> 100 + i]

OldLog(n) == [i \in 1..n |-> OldEntry(i)]

InitialLengths == {0, MAX_LOG_ENTRIES - 1, MAX_LOG_ENTRIES + 1}

\* the files a process can find at start-up, by shape
InitialShapes ==
    { [kind |-> "missing", n |-> 0], [kind |-> "malformed", n |-> 0] }
    \cup { [kind |-> "ok", n |-> n] : n \in InitialLengths }

FileOf(shape) ==
    IF shape.kind = "missing" THEN Missing
    ELSE IF shape.kind = "malformed" THEN Malformed(0)
    ELSE Stored(OldLog(shape.n), 0)

VARIABLES
    file,            \* the activity_log.json file
    now,             \* the wall clock, in seconds
    pc,              \* pc[w]: where watcher w stands in its loop
    last_window,     \* last_window[w]: the last logged (title, process) pair
    current_window,  \* current_window[w]: the pair of the current poll
    log_entry,       \* log_entry[w]: the entry built by the current poll
    activity_log,    \* activity_log[w]: the list being rewritten
    gpc,             \* position of the GUI main thread inside clear_history
    log_data,        \* what update_ui parsed last
    last_mod_time,   \* ActivityApp._last_mod_time
    failures_left,   \* number of failures the environment may still inject
    polls,           \* history: polls[w] = number of probes w has made
    probed,          \* history: pairs obtained by the probes of w, oldest first
    before,          \* history: the file as w's pre-append read found it
    raced,           \* history: raced[w] = another process wrote since w read
    wiped,           \* history: watchers idle since a clear that nothing followed
    dropped,         \* history: dropped[w] = the transition whose write failed
    shape0,          \* history: the shape of the file at start-up
    lookup,          \* history: how the name lookup of w's last probe ended
    running,         \* WatcherThread.running
    entered,         \* the thread has passed "while self.running", not yet probed
    late,            \* history: what the thread did after stop() was called
    unique_contexts, \* ActivityApp.unique_contexts
    grouped_history, \* grouped_history of the last update_timeline
    view,            \* history: the shape of the log given to the GUI
    normalize_call,  \* a call of normalize_window_title: arguments and result
    pinned_apps,     \* ActivityApp.pinned_apps
    pinned_file,     \* the pinned_apps.json file
    dock_call,       \* history: the last call of a handler of the dock
    cycle_index,     \* ActivityApp.cycle_index
    activated,       \* history: the contexts that on_cycle_history went to
    active_keys,     \* HotkeyManager.active_keys
    held_keys,       \* history: the keys that are physically down
    emitted          \* history: emissions per main key since it went down

vars == <<file, now, pc, last_window, current_window, log_entry, activity_log,
          gpc, log_data, last_mod_time, failures_left, polls, probed,
          before, raced, wiped, dropped, shape0, lookup, running, entered,
          late, unique_contexts, grouped_history, view, normalize_call,
          pinned_apps, pinned_file, dock_call, cycle_index, activated,
          active_keys, held_keys, emitted>>

wvars == <<pc, last_window, current_window, log_entry, activity_log, lookup>>
tvars == <<running, entered, late>>
gvars == <<gpc, log_data, last_mod_time, unique_contexts, grouped_history>>
dvars == <<pinned_apps, pinned_file, dock_call>>
cvars == <<cycle_index, activated>>
hvars == <<active_keys, held_keys, emitted>>
ivars == <<shape0, view, normalize_call, dvars, cvars, hvars>>

\* the file when the first process started
file0 == FileOf(shape0)

None     == <<"None", "None">>      \* the pair (None, None)
NoEntry  == [timestamp |-> 0, title |-> "", process |-> "", hwnd |-> 0]
NotRead  == [file |-> Missing, exc |-> "none"]
NoDrop   == [window |-> None, log |-> <<>>]
NotLate  == [polls |-> 0, appends |-> 0]

(***************************************************************************)
(* Pure pieces of the watcher loop                                         *)
(***************************************************************************)
\* variant: the name of the process is always obtained
ExeNameResolved(p) == ProcessOf(p.hwnd)

\* the process-name lookup and its except clause
ExeName(p) ==
    IF p.lookup \in {NoSuchProcess, AccessDenied}
    THEN "unknown"
    ELSE ProcessOf(p.hwnd)

CurrentWindow(p) == <<p.title, ExeName(p)>>

\* variant: an untitled window is logged like any other
ShouldLogUntitled(window_title, current, last) == current # last

\* variant: every titled probe is logged, changed or not
ShouldLogAlways(window_title, current, last) == window_title # ""

\* variant: only the title is compared with the last logged window
ShouldLogTitle(window_title, current, last) ==
    window_title # "" /\ window_title # last[1]

\* "if window_title and current_window != last_window"
ShouldLog(window_title, current, last) ==
    window_title # "" /\ current # last

\* variant: a failed name lookup ends the iteration like a failed probe
LoggingNamed(p, last) ==
    ~p.error /\ p.lookup = "name" /\ ShouldLog(p.title, CurrentWindow(p), last)

\* whether the iteration that probed p goes on to append an entry
Logging(p, last) ==
    ~p.error /\ ShouldLog(p.title, CurrentWindow(p), last)

LogEntry(p, t) ==
    [timestamp |-> t, title |-> p.title, process |-> ExeName(p), hwnd |-> p.hwnd]

\* variant: the entry is added at the end of the list
InsertLast(log, entry) == log \o <<entry>>

\* activity_log.insert(0, log_entry)
Insert(log, entry) == <<entry>> \o log

\* variant: the list is never cut
NoTrim(log) == log

\* "if len(activity_log) > MAX_LOG_ENTRIES: activity_log = activity_log[:MAX_LOG_ENTRIES]"
Trim(log) ==
    IF Len(log) > MAX_LOG_ENTRIES
    THEN SubSeq(log, 1, MAX_LOG_ENTRIES)
    ELSE log

\* variant: last_window is set only when the write went through
LastAfterWriteOk(w, failed) ==
    IF failed THEN last_window[w] ELSE current_window[w]

\* "last_window = current_window" comes after the try/except around the
\* write, so it does not depend on whether the write failed
LastAfterWrite(w, failed) == current_window[w]

(***************************************************************************)
(* open(LOG_FILE_PATH, 'r') followed by json.load                          *)
(***************************************************************************)
\* denied: the open fails with PermissionError (an OSError)
ReadFile(f, denied) ==
    IF f.kind = "missing"   THEN [exc |-> "FileNotFoundError", data |-> <<>>]
    ELSE IF denied          THEN [exc |-> "PermissionError",   data |-> <<>>]
    ELSE IF f.kind = "malformed"
                            THEN [exc |-> "JSONDecodeError",   data |-> <<>>]
    ELSE                         [exc |-> "none",              data |-> f.content]

\* what a reader that maps every failure to [] gets from the file
AsLog(f) == IF f.kind = "ok" THEN f.content ELSE <<>>

\* watcher.py: except (json.JSONDecodeError, FileNotFoundError)
ReadLogStandalone(r) ==
    [raised |-> r.exc \notin {"none", "JSONDecodeError", "FileNotFoundError"},
     log    |-> IF r.exc = "none" THEN r.data ELSE <<>>]

\* gui.py WatcherThread.run: bare except
ReadLogThread(r) ==
    [raised |-> FALSE,
     log    |-> IF r.exc = "none" THEN r.data ELSE <<>>]

ReadLog(w, r) == IF w = SW THEN ReadLogStandalone(r) ELSE ReadLogThread(r)

\* variant: the append starts from the copy loaded at start-up
\* (existing_log of watcher.py line 21) and does not re-read the file
StartupLog(w, f, denied) == [raised |-> FALSE, log |-> AsLog(file0)]

\* the pre-append read: the log as this append gets it from the disk
FreshLog(w, f, denied) == ReadLog(w, ReadFile(f, denied))

(***************************************************************************)
(* Strings of the GUI.  Where the code looks inside a string (in, split,   *)
(* strip, len, slices, concatenation) the string is a sequence of          *)
(* one-character strings.                                                  *)
(***************************************************************************)
VisualStudioCode == <<"V", "i", "s", "u", "a", "l", " ", "S", "t", "u", "d", "i", "o", " ", "C", "o", "d", "e">>
Separator        == <<" ", "-", " ">>
Ellipsis         == <<".", ".", ".">>
KeyJoin          == <<":", ":">>
Whitespace       == {" "}

\* the characters of a string that a log entry holds
Chars(s) ==
    CASE s = "" -> <<>>
      [] s = "Notepad" -> <<"N", "o", "t", "e", "p", "a", "d">>
      [] s = "Calc" -> <<"C", "a", "l", "c">>
      [] s = "System Idle Process" -> <<"S", "y", "s", "t", "e", "m", " ", "I", "d", "l", "e", " ", "P", "r", "o", "c", "e", "s", "s">>
      [] s = "notepad.exe" -> <<"n", "o", "t", "e", "p", "a", "d", ".", "e", "x", "e">>
      [] s = "calc.exe" -> <<"c", "a", "l", "c", ".", "e", "x", "e">>
      [] s = "unknown" -> <<"u", "n", "k", "n", "o", "w", "n">>
      [] s = "Code.exe" -> <<"C", "o", "d", "e", ".", "e", "x", "e">>
      [] s = "a - b - Visual Studio Code" -> <<"a", " ", "-", " ", "b", " ", "-", " ", "V", "i", "s", "u", "a", "l", " ", "S", "t", "u", "d", "i", "o", " ", "C", "o", "d", "e">>
      [] s = "b - b - Visual Studio Code" -> <<"b", " ", "-", " ", "b", " ", "-", " ", "V", "i", "s", "u", "a", "l", " ", "S", "t", "u", "d", "i", "o", " ", "C", "o", "d", "e">>
      [] s = "dejaVU" -> <<"d", "e", "j", "a", "V", "U">>
      [] s = "a - dejaVU - Visual Studio Code" -> <<"a", " ", "-", " ", "d", "e", "j", "a", "V", "U", " ", "-", " ", "V", "i", "s", "u", "a", "l", " ", "S", "t", "u", "d", "i", "o", " ", "C", "o", "d", "e">>
      [] s = "xxxxxxxxxxxxxxxxxxxxxxxxxxxxxxxxxxxxxxxxa" -> <<"x", "x", "x", "x", "x", "x", "x", "x", "x", "x", "x", "x", "x", "x", "x", "x", "x", "x", "x", "x", "x", "x", "x", "x", "x", "x", "x", "x", "x", "x", "x", "x", "x", "x", "x", "x", "x", "x", "x", "x", "a">>
      [] s = "a" -> <<"a">>
      [] s = "b" -> <<"b">>

DejaVU         == "dejaVU"
TaskSwitching  == "Task Switching"
ProgramManager == "Program Manager"

IGNORE_TITLES == {DejaVU, TaskSwitching, ProgramManager}
MAX_RECENT_ITEMS == 50

\* "sub in s"
Contains(s, sub) ==
    \E i \in 1..(Len(s) - Len(sub) + 1) : SubSeq(s, i, i + Len(sub) - 1) = sub

\* s.find(sub) + 1: the place of the first occurrence of sub in s, 0 if none
Find(s, sub) ==
    LET at == {i \in 1..(Len(s) - Len(sub) + 1) :
                  SubSeq(s, i, i + Len(sub) - 1) = sub}
    IN  IF at = {} THEN 0 ELSE CHOOSE i \in at : \A j \in at : i <= j

\* s.split(sep)
RECURSIVE Split(_, _)
Split(s, sep) ==
    LET i == Find(s, sep) IN
    IF i = 0
    THEN <<s>>
    ELSE <<SubSeq(s, 1, i - 1)>> \o Split(SubSeq(s, i + Len(sep), Len(s)), sep)

\* s.strip()
Strip(s) ==
    LET solid == {i \in 1..Len(s) : s[i] \notin Whitespace} IN
    IF solid = {}
    THEN <<>>
    ELSE SubSeq(s, CHOOSE i \in solid : \A j \in solid : i <= j,
                   CHOOSE i \in solid : \A j \in solid : j <= i)

\* variant: the title is cut to 40 characters without the dots
TruncateBare(title) == SubSeq(title, 1, 40)

\* title[:40] + "..."
Truncate(title) == SubSeq(title, 1, 40) \o Ellipsis

\* variant: the first segment is taken
EditorSegmentFirst(parts) == Strip(parts[1])

\* parts[1].strip(): the second segment (Python counts from 0)
EditorSegment(parts) == Strip(parts[2])

\* ActivityApp.normalize_window_title
normalize_window_title(title, process) ==
    LET parts == Split(title, Separator) IN
    IF Contains(title, VisualStudioCode) /\ Len(parts) >= 2
    THEN EditorSegment(parts)
    ELSE IF Len(title) > 40 THEN Truncate(title) ELSE title

(***************************************************************************)
(* update_ui after the load: filter, context deck, timeline                *)
(***************************************************************************)
\* variant: no title is ignored
NothingIgnored(e) == TRUE

\* "[e for e in log_data if e['title'] not in IGNORE_TITLES]"
NotIgnored(e) == e.title \notin IGNORE_TITLES
ValidData(data) == SelectSeq(data, NotIgnored)

\* f"{entry['process']}::{kt}"
Key(process, kt) == process \o KeyJoin \o kt

\* entry['normalized_title'] = kt
WithNormalizedTitle(entry, kt) ==
    [timestamp |-> entry.timestamp, title |-> entry.title,
     process |-> entry.process, hwnd |-> entry.hwnd, normalized_title |-> kt]

\* variant: no key is ever remembered
SeenNothing(seen_keys, key) == seen_keys

\* seen_keys.add(key)
Seen(seen_keys, key) == seen_keys \cup {key}

\* the loop "for entry in valid_data" of update_ui, from entry i on
RECURSIVE ContextDeck(_, _, _, _)
ContextDeck(valid_data, i, seen_keys, contexts) ==
    IF i > Len(valid_data)
    THEN contexts
    ELSE LET entry == valid_data[i]
             kt    == normalize_window_title(Chars(entry.title), entry.process)
             key   == Key(Chars(entry.process), kt)
             added == IF key \notin seen_keys
                      THEN Append(contexts, WithNormalizedTitle(entry, kt))
                      ELSE contexts
         IN  IF Len(added) >= 3
             THEN added
             ELSE ContextDeck(valid_data, i + 1, Seen(seen_keys, key), added)

UniqueContexts(valid_data) == ContextDeck(valid_data, 1, {}, <<>>)

\* variant: the whole list goes into the timeline
RecentAll(data) == data

\* data[:MAX_RECENT_ITEMS]
Recent(data) == SubSeq(data, 1, IF Len(data) < MAX_RECENT_ITEMS
                                THEN Len(data) ELSE MAX_RECENT_ITEMS)

\* variant: entries of the same process are coalesced, whatever their title
SameGroupProcess(current_group, process, title) ==
    current_group.process = process

\* "current_group['process'] == process and current_group['title'] == title"
SameGroup(current_group, process, title) ==
    current_group.process = process /\ current_group.title = title

\* the dictionary appended to grouped_history
NewGroup(entry, title) ==
    [process |-> entry.process, title |-> title, timestamp |-> entry.timestamp,
     hwnd |-> entry.hwnd, full_title |-> entry.title]

\* the loop "for entry in data[:MAX_RECENT_ITEMS]" of update_timeline, from
\* entry i on; current_group is the last element of grouped_history
RECURSIVE Grouping(_, _, _)
Grouping(data, i, groups) ==
    IF i > Len(data)
    THEN groups
    ELSE LET entry == data[i]
             title == normalize_window_title(Chars(entry.title), entry.process)
         IN  IF groups # <<>> /\ SameGroup(groups[Len(groups)], entry.process, title)
             THEN Grouping(data, i + 1, groups)
             ELSE Grouping(data, i + 1, Append(groups, NewGroup(entry, title)))

\* ActivityApp.update_timeline
GroupedHistory(data) == Grouping(Recent(data), 1, <<>>)

(***************************************************************************)
(* Titles and logs given to the GUI                                        *)
(***************************************************************************)
CodeExe    == "Code.exe"
NotepadExe == "notepad.exe"

\* twenty characters of a long title
Pad == [i \in 1..20 |-> "x"]

Pieces == {<<"a">>, <<" ", "b">>, Separator, Separator \o VisualStudioCode, Pad}

RECURSIVE Concat(_)
Concat(ps) == IF ps = <<>> THEN <<>> ELSE Head(ps) \o Concat(Tail(ps))

\* the titles made of up to MaxPieces pieces
Titles == {Concat(ps) : ps \in UNION {[1..n -> Pieces] : n \in 1..MaxPieces}}

\* the windows whose entries make up the logs shown by the GUI: two files of
\* one editor project, the GUI's own window, an editor project called like
\* it, a window with a long title, a window with a short one
ViewWindows ==
    << [title |-> "a - b - Visual Studio Code",      process |-> CodeExe],
       [title |-> "b - b - Visual Studio Code",      process |-> CodeExe],
       [title |-> DejaVU,                            process |-> CodeExe],
       [title |-> "a - dejaVU - Visual Studio Code", process |-> CodeExe],
       [title |-> "xxxxxxxxxxxxxxxxxxxxxxxxxxxxxxxxxxxxxxxxa",
        process |-> NotepadExe],
       [title |-> "a", process |-> NotepadExe] >>

\* two more windows, which older entries alternate between
OlderWindows ==
    << [title |-> "a", process |-> NotepadExe],
       [title |-> "b", process |-> NotepadExe] >>

\* the entry logged i-th last, for window win
ViewEntry(win, i) ==
    [timestamp |-> 0 - i, title |-> win.title, process |-> win.process,
     hwnd |-> 100 + i]

\* a log: the entries of v.head, newest first, ahead of v.pad older entries
ViewLog(v) ==
    [i \in 1..(Len(v.head) + v.pad) |->
        IF i <= Len(v.head) THEN ViewEntry(ViewWindows[v.head[i]], i)
        ELSE ViewEntry(OlderWindows[1 + (i % 2)], i)]

PadLengths == {0, MAX_RECENT_ITEMS - 2}

Views ==
    {[head |-> h, pad |-> n] :
        h \in UNION {[1..n -> 1..Len(ViewWindows)] : n \in 0..MaxHead},
        n \in PadLengths}

NoView  == [head |-> <<>>, pad |-> 0]
Pending == <<"pending">>
NoCall  == [title |-> <<>>, process |-> "", kt |-> <<>>]

(***************************************************************************)
(* The Quick Dock: pinned_apps.json and the list in memory                 *)
(***************************************************************************)
\* "if len(self.pinned_apps) >= 4" of pin_app, "for i in range(4)" of the dock
MaxPinned == 4

\* QuickDockItem.index of the four slots
DockItems == 0..(MaxPinned - 1)

\* pinned_apps.json: missing, or a text, which is a sequence of JSON tokens
NoPinnedFile  == [exists |-> FALSE, text |-> <<>>]
PinnedFile(t) == [exists |-> TRUE,  text |-> t]

\* variant: the window handle is not written
DumpPinNoHwnd(pin) ==
    <<"{", "process", pin.process, "title", pin.title, "hwnd", ToString(0), "}">>

\* json.dump of one dictionary of the list
DumpPin(pin) ==
    <<"{", "process", pin.process, "title", pin.title, "hwnd", ToString(pin.hwnd), "}">>

RECURSIVE DumpPins(_)
DumpPins(l) == IF l = <<>> THEN <<>> ELSE DumpPin(Head(l)) \o DumpPins(Tail(l))

\* json.dump(self.pinned_apps, f, indent=2)
JsonDump(l) == <<"[">> \o DumpPins(l) \o <<"]">>

\* the log that the GUI shows while the dock is used, and its window handles
DockView == [head |-> <<1, 5>>, pad |-> 0]
DockLog  == ViewLog(DockView)

\* the log whose windows a stored list can hold
StoredView == [head |-> <<1, 5, 6>>, pad |-> 0]
Hwnds      == {ViewLog(StoredView)[i].hwnd : i \in 1..Len(ViewLog(StoredView))}

\* the number of tokens of one dictionary
PinTokens == Len(DumpPin(NoEntry))

\* json.load: the text is a dictionary with the three keys
IsPinText(t) ==
    /\ Len(t) = PinTokens
    /\ t[1] = "{" /\ t[2] = "process" /\ t[4] = "title" /\ t[6] = "hwnd" /\ t[8] = "}"
    /\ \E h \in Hwnds : ToString(h) = t[7]

LoadPin(t) ==
    [process |-> t[3], title |-> t[5],
     hwnd |-> CHOOSE h \in Hwnds : ToString(h) = t[7]]

PinText(t, k) == SubSeq(t, 2 + PinTokens * (k - 1), 1 + PinTokens * k)

\* json.load: the text is a list of dictionaries
IsListText(t) ==
    /\ Len(t) >= 2 /\ t[1] = "[" /\ t[Len(t)] = "]"
    /\ (Len(t) - 2) % PinTokens = 0
    /\ \A k \in 1..((Len(t) - 2) \div PinTokens) : IsPinText(PinText(t, k))

JsonLoad(t) == [k \in 1..((Len(t) - 2) \div PinTokens) |-> LoadPin(PinText(t, k))]

\* ActivityApp.load_pinned_apps: any exception gives the empty list
load_pinned_apps(f) ==
    IF f.exists /\ IsListText(f.text) THEN JsonLoad(f.text) ELSE <<>>

\* ActivityApp.save_pinned_apps: the file it leaves and whether it raises;
\* open(..., 'w') can fail, which leaves the file alone, and json.dump can
\* fail after the file was truncated
SaveFaults == {"none", "open", "dump"}
save_pinned_apps(f, apps, fault) ==
    CASE fault = "none" -> [file |-> PinnedFile(JsonDump(apps)), raised |-> FALSE]
      [] fault = "open" -> [file |-> f,                          raised |-> TRUE]
      [] fault = "dump" -> [file |-> PinnedFile(<<"[">>),        raised |-> TRUE]

\* variant: a fifth application is accepted
DockFullAtFive(apps) == Len(apps) > MaxPinned

\* "len(self.pinned_apps) >= 4"
DockFull(apps) == Len(apps) >= MaxPinned

\* new_pin of pin_app
NewPin(data) == [process |-> data.process, title |-> data.title, hwnd |-> data.hwnd]

\* variant: the last entry is removed
DelLast(apps, index) == SubSeq(apps, 1, Len(apps) - 1)

\* "del self.pinned_apps[item.index]" (Python counts from 0)
Del(apps, index) == SubSeq(apps, 1, index) \o SubSeq(apps, index + 2, Len(apps))

\* the applications that can be pinned, and the stores found at start-up
PinsOf(log) ==
    LET groups == GroupedHistory(ValidData(log))
    IN  {NewPin(groups[i]) : i \in 1..Len(groups)}
PinLists(pins) == UNION {[1..n -> pins] : n \in 0..MaxPinned}

\* the text of a pinned_apps.json that holds the list l
StoredText(l) ==
    <<"[">>
    \o Concat([k \in 1..Len(l) |->
                 <<"{", "process", l[k].process, "title", l[k].title,
                   "hwnd", ToString(l[k].hwnd), "}">>])
    \o <<"]">>

PinnedFiles ==
    {NoPinnedFile, PinnedFile(<<>>)}
    \cup {PinnedFile(StoredText(l)) : l \in PinLists(PinsOf(DockLog))}

NoDockCall == [op |-> "off", arg |-> 0, apps |-> <<>>, store |-> NoPinnedFile,
               outcome |-> "none", n |-> 0]

(***************************************************************************)
(* Hotkeys: HotkeyManager and the handler of "cycle_history"               *)
(***************************************************************************)
\* the keys of the keyboard that take part, as pynput names them
Modifiers    == {"ctrl", "alt", "shift", "cmd"}
PhysicalKeys == {"ctrl_l", "ctrl_r", "alt_l", "a", "space", "b"}

\* HotkeyManager._normalize_key: ctrl_l and ctrl_r are ctrl, and so on
normalize_key(key) ==
    CASE key \in {"ctrl_l", "ctrl_r"} -> "ctrl"
      [] key \in {"alt_l", "alt_r"}   -> "alt"
      [] OTHER                        -> key

MainKeys == {normalize_key(key) : key \in PhysicalKeys} \ Modifiers

\* HotkeyManager.hotkey_map for "<ctrl>+<alt>+a" and "<ctrl>+<alt>+space"
hotkey_map ==
    (<<{"ctrl", "alt"}, "a">> :> "toggle_panel")
    @@ (<<{"ctrl", "alt"}, "space">> :> "cycle_history")

\* HotkeyManager._check_hotkey: the main keys whose combination with the
\* modifiers that are down is registered; one emission for each
Triggered(keys) ==
    {main_key \in keys \ Modifiers :
        <<keys \cap Modifiers, main_key>> \in DOMAIN hotkey_map}

\* HotkeyManager._on_press: active_keys after the event; gap: more than
\* STALE_KEY_THRESHOLD has passed since the last key event
ActiveAfterPress(keys, key, gap) ==
    (IF keys # {} /\ gap THEN {} ELSE keys) \cup {normalize_key(key)}

\* restore_window: cycle_index after the call
CycleIndexAfterRestore(index, ok) == IF ok THEN 0 ELSE index

(***************************************************************************)
(* Bookkeeping of the history variables                                    *)
(***************************************************************************)
FaultChoices == IF failures_left > 0 THEN {FALSE, TRUE} ELSE {FALSE}
After(fail)  == IF fail THEN failures_left - 1 ELSE failures_left

\* process p has just modified the file: every watcher other than p that is
\* between its read and the end of its write has been raced
RacedBy(p) ==
    [v \in W |-> IF v # p /\ pc[v] \in {"open", "dump"} THEN TRUE ELSE raced[v]]

Forget(f, w, v) == [f EXCEPT ![w] = v]

(***************************************************************************)
(* Initial state                                                           *)
(***************************************************************************)
\* no process has started yet
Idle ==
    /\ now = 1
    /\ pc = [w \in W |-> "off"]
    /\ last_window = [w \in W |-> None]
    /\ current_window = [w \in W |-> None]
    /\ log_entry = [w \in W |-> NoEntry]
    /\ activity_log = [w \in W |-> <<>>]
    /\ gpc = "idle"
    /\ log_data = <<>>
    /\ last_mod_time = 0
    /\ polls = [w \in W |-> 0]
    /\ probed = [w \in W |-> <<>>]
    /\ before = [w \in W |-> NotRead]
    /\ raced = [w \in W |-> FALSE]
    /\ wiped = {}
    /\ dropped = [w \in W |-> NoDrop]
    /\ lookup = [w \in W |-> "none"]
    /\ running = TRUE
    /\ entered = FALSE
    /\ late = NotLate
    /\ unique_contexts = <<>>
    /\ grouped_history = <<>>
    /\ pinned_apps = <<>>
    /\ dock_call = NoDockCall
    /\ cycle_index = 0
    /\ activated = <<>>
    /\ active_keys = {}
    /\ held_keys = {}
    /\ emitted = [k \in MainKeys |-> 0]

Start ==
    /\ shape0 \in InitialShapes
    /\ file = FileOf(shape0)
    /\ Idle
    /\ view = NoView
    /\ normalize_call = NoCall
    /\ pinned_file = NoPinnedFile

(***************************************************************************)
(* Start-up                                                                *)
(***************************************************************************)
\* watcher.py lines 13-26: create the file if absent, reset it if corrupted;
\* an OSError is not caught
StartStandalone ==
    /\ pc[SW] = "off"
    /\ \E fail \in FaultChoices :
         LET r == ReadFile(file, fail) IN
         /\ failures_left' = After(fail)
         /\ IF fail
            THEN /\ pc' = [pc EXCEPT ![SW] = "dead:start"]
                 /\ UNCHANGED <<file, raced, wiped>>
            ELSE /\ pc' = [pc EXCEPT ![SW] = "poll"]
                 /\ IF r.exc \in {"FileNotFoundError", "JSONDecodeError"}
                    THEN /\ file' = Stored(<<>>, now)
                         /\ raced' = RacedBy(SW)
                         /\ wiped' = {}
                    ELSE UNCHANGED <<file, raced, wiped>>
    /\ UNCHANGED <<now, last_window, current_window, log_entry, activity_log,
                   gvars, polls, probed, before, dropped, ivars, lookup, tvars>>

\* gui.py lines 367-369: create the file if absent
StartThread ==
    /\ pc[GW] = "off"
    /\ \E fail \in FaultChoices :
         /\ fail => file.kind = "missing"
         /\ failures_left' = After(fail)
         /\ IF fail
            THEN /\ pc' = [pc EXCEPT ![GW] = "dead:start"]
                 /\ UNCHANGED <<file, raced, wiped>>
            ELSE /\ pc' = [pc EXCEPT ![GW] = "poll"]
                 /\ IF file.kind = "missing"
                    THEN /\ file' = Stored(<<>>, now)
                         /\ raced' = RacedBy(GW)
                         /\ wiped' = {}
                    ELSE UNCHANGED <<file, raced, wiped>>
    /\ UNCHANGED <<now, last_window, current_window, log_entry, activity_log,
                   gvars, polls, probed, before, dropped, ivars, lookup, tvars>>

(***************************************************************************)
(* One iteration of the polling loop                                       *)
(***************************************************************************)
\* time.sleep(1): a second of wall-clock time has gone by when the next
\* iteration starts
Slept == now + 1

\* variant: the loop of the thread never looks at the flag
LoopTestAlways == TRUE

\* "while self.running"
LoopTest == running

\* The locals of an iteration (current_window, log_entry, activity_log) are
\* not read again once the iteration is over: the model forgets them there,
\* together with the history variables that describe the append.
EndIteration(w) ==
    /\ pc' = [pc EXCEPT ![w] = "poll"]
    /\ now' = Slept
    /\ current_window' = Forget(current_window, w, None)
    /\ log_entry' = Forget(log_entry, w, NoEntry)
    /\ activity_log' = Forget(activity_log, w, <<>>)
    /\ before' = Forget(before, w, NotRead)

\* The head of an iteration, up to the first access to the file that another
\* process can observe: probe, compare with last_window, build the entry,
\* read the log from disk, insert, trim.  An iteration that logs nothing
\* sleeps and is back at the head of the loop.
\* record: whether the history of the probes is kept; bound: of the
\* number of probes
PollStep(w, record, bound) ==
    /\ pc[w] = "poll"
    /\ w = GW => entered \/ LoopTest
    /\ polls[SW] + polls[GW] < bound
    /\ entered' = (IF w = GW THEN FALSE ELSE entered)
    /\ late' = IF w = GW /\ ~running THEN [late EXCEPT !.polls = @ + 1] ELSE late
    /\ polls' = [polls EXCEPT ![w] = @ + 1]
    /\ \E p \in ProbeOutcomes, denied \in BOOLEAN :
         LET current == CurrentWindow(p)
             logging == Logging(p, last_window[w])
             got     == FreshLog(w, file, denied)
             n       == (IF p.error THEN 1 ELSE 0) + (IF denied THEN 1 ELSE 0)
         IN
         /\ denied => logging /\ file.kind # "missing"
         /\ n <= failures_left
         /\ failures_left' = failures_left - n
         /\ probed' = [probed EXCEPT ![w] =
                          IF record /\ ~p.error THEN Append(@, current) ELSE @]
         /\ lookup' = [lookup EXCEPT ![w] =
                          IF record /\ ~p.error THEN p.lookup ELSE "none"]
         /\ dropped' = [dropped EXCEPT ![w] =
                          IF p.error \/ current = @.window THEN @ ELSE NoDrop]
         /\ IF p.error /\ w = SW
            THEN \* a win32 call raises, uncaught in watcher.py
                 /\ pc' = [pc EXCEPT ![w] = "dead:probe"]
                 /\ UNCHANGED <<now, current_window, log_entry, activity_log,
                                before, raced>>
            ELSE IF ~logging
            THEN \* nothing to log, or "except: time.sleep(1)" in WatcherThread.run
                 /\ now' = Slept
                 /\ UNCHANGED <<pc, current_window, log_entry, activity_log,
                                before, raced>>
            ELSE /\ current_window' = [current_window EXCEPT ![w] = current]
                 /\ log_entry' = [log_entry EXCEPT ![w] = LogEntry(p, now)]
                 /\ before' = [before EXCEPT ![w] =
                                  [file |-> file, exc |-> ReadFile(file, denied).exc]]
                 /\ raced' = [raced EXCEPT ![w] = FALSE]
                 /\ now' = now
                 /\ IF got.raised
                    THEN /\ pc' = [pc EXCEPT ![w] = "dead:read"]
                         /\ UNCHANGED activity_log
                    ELSE /\ pc' = [pc EXCEPT ![w] = "open"]
                         /\ activity_log' = [activity_log EXCEPT ![w] =
                                Trim(Insert(got.log, LogEntry(p, now)))]
    /\ UNCHANGED <<file, last_window, gvars, wiped, ivars, running>>

Poll(w)         == PollStep(w, FALSE, MaxRacingPolls)
PollRecorded(w) == PollStep(w, TRUE, MaxPolls)

\* open(LOG_FILE_PATH, 'w'): truncates the file; if it fails the file is
\* left alone, last_window is set and the iteration sleeps
Open(w) ==
    /\ pc[w] = "open"
    /\ \E fail \in FaultChoices :
         /\ failures_left' = After(fail)
         /\ IF fail
            THEN /\ last_window' = [last_window EXCEPT ![w] = LastAfterWrite(w, TRUE)]
                 /\ dropped' = [dropped EXCEPT ![w] =
                        [window |-> current_window[w], log |-> AsLog(file)]]
                 /\ EndIteration(w)
                 /\ raced' = Forget(raced, w, FALSE)
                 /\ UNCHANGED <<file, wiped>>
            ELSE /\ file' = Malformed(now)
                 /\ raced' = RacedBy(w)
                 /\ wiped' = wiped \cap {w}
                 /\ pc' = [pc EXCEPT ![w] = "dump"]
                 /\ UNCHANGED <<last_window, now, current_window, log_entry,
                                activity_log, before, dropped>>
    /\ UNCHANGED <<gvars, polls, probed, ivars, lookup, tvars>>

\* variant: the write merges the entry into what the file holds by then, as
\* an append under a lock would
DumpedMerged(w) ==
    IF file.kind = "ok"
    THEN Trim(Insert(file.content, log_entry[w]))
    ELSE activity_log[w]

\* what json.dump writes: the list computed from this iteration's own read
Dumped(w) == activity_log[w]

\* json.dump(activity_log, f, indent=4) and close, last_window =
\* current_window, time.sleep(1)
Dump(w) ==
    /\ pc[w] = "dump"
    /\ \E fail \in FaultChoices :
         /\ failures_left' = After(fail)
         /\ file' = IF fail THEN Malformed(now) ELSE Stored(Dumped(w), now)
         /\ late' = IF w = GW /\ ~running /\ ~fail
                    THEN [late EXCEPT !.appends = @ + 1] ELSE late
         /\ last_window' = [last_window EXCEPT ![w] = LastAfterWrite(w, fail)]
         /\ dropped' = [dropped EXCEPT ![w] =
                IF fail THEN [window |-> current_window[w], log |-> <<>>] ELSE @]
    /\ EndIteration(w)
    /\ raced' = Forget(RacedBy(w), w, FALSE)
    /\ wiped' = {}
    /\ UNCHANGED <<gvars, polls, probed, ivars, lookup, running, entered>>

(***************************************************************************)
(* Stopping the thread                                                     *)
(***************************************************************************)
\* "while self.running" of WatcherThread.run, taken as a step of its own:
\* the thread goes on to the probe, or run() returns.  (PollStep takes the
\* test and the probe in one step when nothing comes between them.)
TestRunning ==
    /\ pc[GW] = "poll"
    /\ ~entered
    /\ IF LoopTest
       THEN /\ polls[SW] + polls[GW] < MaxPolls
            /\ entered' = TRUE
            /\ pc' = pc
       ELSE /\ entered' = entered
            /\ pc' = [pc EXCEPT ![GW] = "done"]
    /\ UNCHANGED <<file, now, last_window, current_window, log_entry,
                   activity_log, gvars, failures_left, polls, probed, before,
                   raced, wiped, dropped, ivars, lookup, running, late>>

\* WatcherThread.stop(), called by closeEvent on the GUI main thread
Stop ==
    /\ running
    /\ pc[GW] \in {"off", "poll", "open", "dump"}
    /\ running' = FALSE
    /\ UNCHANGED <<file, now, wvars, gvars, failures_left, polls, probed,
                   before, raced, wiped, dropped, ivars, entered, late>>

(***************************************************************************)
(* The GUI main thread                                                     *)
(***************************************************************************)
\* update_ui lines 853-866: stat, compare with _last_mod_time, re-read
UpdateUiLoad(f, lmt, data, denied) ==
    IF f.kind = "missing"
    THEN [skipped |-> FALSE, last_mod_time |-> lmt, log_data |-> <<>>]
    ELSE IF f.mtime = lmt
    THEN [skipped |-> TRUE, last_mod_time |-> lmt, log_data |-> data]
    ELSE [skipped |-> FALSE, last_mod_time |-> f.mtime,
          log_data |-> AsLog(IF denied THEN Missing ELSE f)]

\* update_ui as a whole: what it leaves in the attributes of the window
UpdateUi(f, denied) ==
    LET u     == UpdateUiLoad(f, last_mod_time, log_data, denied)
        valid == ValidData(u.log_data)
    IN  IF u.skipped
        THEN [last_mod_time |-> last_mod_time, log_data |-> log_data,
              unique_contexts |-> unique_contexts,
              grouped_history |-> grouped_history]
        ELSE [last_mod_time |-> u.last_mod_time, log_data |-> u.log_data,
              unique_contexts |-> UniqueContexts(valid),
              grouped_history |-> GroupedHistory(valid)]

\* variant: update_ui saves the entries that it shows
UpdateUiSaves(f, data) ==
    IF f.kind = "ok" THEN Stored(ValidData(data), f.mtime) ELSE f

\* the log file after update_ui: the function opens it for reading only
UpdateUiFile(f, data) == f

\* the QTimer of ActivityApp fires: update_ui
TimerUi ==
    /\ gpc = "idle"
    /\ \E denied \in FaultChoices : \E u \in {UpdateUi(file, denied)} :
         /\ denied => file.kind # "missing" /\ file.mtime # last_mod_time
         /\ failures_left' = After(denied)
         /\ file' = UpdateUiFile(file, u.log_data)
         /\ last_mod_time' = u.last_mod_time
         /\ log_data' = u.log_data
         /\ unique_contexts' = u.unique_contexts
         /\ grouped_history' = u.grouped_history
    /\ UNCHANGED <<now, wvars, gpc, polls, probed, before, raced, wiped,
                   dropped, ivars, tvars>>

\* a call of normalize_window_title
Normalize ==
    /\ normalize_call.kt = Pending
    /\ normalize_call' = [normalize_call EXCEPT
          !.kt = normalize_window_title(normalize_call.title, normalize_call.process)]
    /\ UNCHANGED <<file, now, wvars, gvars, failures_left, polls, probed, before,
                   raced, wiped, dropped, shape0, view, tvars, dvars, cvars,
                   hvars>>

\* clear_history: open(LOG_FILE_PATH, 'w')
ClearOpen ==
    /\ gpc = "idle"
    /\ \E fail \in FaultChoices :
         /\ failures_left' = After(fail)
         /\ IF fail
            THEN UNCHANGED <<file, raced, wiped, gpc>>
            ELSE /\ file' = Malformed(now)
                 /\ raced' = RacedBy("gui")
                 /\ wiped' = {}
                 /\ gpc' = "clear_dump"
    /\ UNCHANGED <<now, wvars, log_data, last_mod_time, unique_contexts,
                   grouped_history, polls, probed, before, dropped, ivars, tvars>>

\* clear_history: json.dump([], f) and close, then self.update_ui()
ClearDump ==
    /\ gpc = "clear_dump"
    /\ gpc' = "idle"
    /\ \E fail \in FaultChoices :
         /\ failures_left' = After(fail)
         /\ IF fail
            THEN /\ file' = Malformed(now)
                 /\ wiped' = {}
                 /\ UNCHANGED <<log_data, last_mod_time, unique_contexts,
                                grouped_history>>
            ELSE \E u \in {UpdateUi(Stored(<<>>, now), FALSE)} :
                 /\ file' = UpdateUiFile(Stored(<<>>, now), u.log_data)
                 /\ wiped' = {w \in W : pc[w] = "poll" /\ last_window[w] # None}
                 /\ last_mod_time' = u.last_mod_time
                 /\ log_data' = u.log_data
                 /\ unique_contexts' = u.unique_contexts
                 /\ grouped_history' = u.grouped_history
    /\ raced' = RacedBy("gui")
    /\ UNCHANGED <<now, wvars, polls, probed, before, dropped, ivars, tvars>>

\* what a handler of the dock did: the list and the file as it found them
DockCall(op, arg, outcome) ==
    [op |-> op, arg |-> arg, apps |-> pinned_apps, store |-> pinned_file,
     outcome |-> outcome, n |-> 0]

\* ActivityApp.__init__: self.pinned_apps = self.load_pinned_apps()
LoadPinnedApps ==
    /\ dock_call.op = "off"
    /\ pinned_apps' = load_pinned_apps(pinned_file)
    /\ dock_call' = DockCall("init", 0, "returned")
    /\ UNCHANGED <<file, now, wvars, gvars, failures_left, polls, probed, before,
                   raced, wiped, dropped, shape0, view, normalize_call, tvars,
                   pinned_file, cvars, hvars>>

\* the end of pin_app and of on_dock_item_unpin: save_pinned_apps and, when it
\* has not raised, update_ui
SaveAndUpdate(op, arg, apps, fault) ==
    \E s \in {save_pinned_apps(pinned_file, apps, fault)} :
       /\ pinned_apps' = apps
       /\ pinned_file' = s.file
       /\ dock_call' = DockCall(op, arg, IF s.raised THEN "raised" ELSE "returned")
       /\ IF s.raised
          THEN UNCHANGED <<file, log_data, last_mod_time, unique_contexts,
                           grouped_history>>
          ELSE \E u \in {UpdateUi(file, FALSE)} :
                  /\ file' = UpdateUiFile(file, u.log_data)
                  /\ last_mod_time' = u.last_mod_time
                  /\ log_data' = u.log_data
                  /\ unique_contexts' = u.unique_contexts
                  /\ grouped_history' = u.grouped_history

\* "Pin App to Dock" on an item of the timeline: pin_app(data)
PinApp ==
    /\ dock_call.op # "off"
    /\ gpc = "idle"
    /\ \E g \in 1..Len(grouped_history) :
         IF DockFull(pinned_apps)
         THEN /\ dock_call' = DockCall("pin", g, "warned")
              /\ UNCHANGED <<pinned_apps, pinned_file, file, log_data,
                             last_mod_time, unique_contexts, grouped_history>>
         ELSE \E fault \in SaveFaults :
                 SaveAndUpdate("pin", g,
                               Append(pinned_apps, NewPin(grouped_history[g])), fault)
    /\ UNCHANGED <<now, wvars, gpc, failures_left, polls, probed, before, raced,
                   wiped, dropped, shape0, view, normalize_call, tvars, cvars,
                   hvars>>

\* "Unpin from Dock" on a slot of the dock: on_dock_item_unpin(item)
DockItemUnpin ==
    /\ dock_call.op # "off"
    /\ gpc = "idle"
    /\ \E index \in DockItems :
         IF index < Len(pinned_apps)
         THEN \E fault \in SaveFaults :
                 SaveAndUpdate("unpin", index, Del(pinned_apps, index), fault)
         ELSE /\ dock_call' = DockCall("unpin", index, "returned")
              /\ UNCHANGED <<pinned_apps, pinned_file, file, log_data,
                             last_mod_time, unique_contexts, grouped_history>>
    /\ UNCHANGED <<now, wvars, gpc, failures_left, polls, probed, before, raced,
                   wiped, dropped, shape0, view, normalize_call, tvars, cvars,
                   hvars>>

\* load_pinned_apps followed by save_pinned_apps
LoadSave ==
    /\ dock_call.n < 2
    /\ \E apps \in {load_pinned_apps(pinned_file)} :
         /\ pinned_apps' = apps
         /\ pinned_file' = save_pinned_apps(pinned_file, apps, "none").file
    /\ dock_call' = [DockCall("load_save", 0, "returned") EXCEPT !.n = dock_call.n + 1]
    /\ UNCHANGED <<file, now, wvars, gvars, failures_left, polls, probed, before,
                   raced, wiped, dropped, shape0, view, normalize_call, tvars,
                   cvars, hvars>>

\* the hotkey "cycle_history": on_cycle_history, with restore_window either
\* bringing the window to the front (ok) or failing in a win32 call
CycleHistory ==
    /\ gpc = "idle"
    /\ unique_contexts # <<>>
    /\ Len(activated) < MaxCycles
    /\ \E ok \in BOOLEAN :
         LET index  == (cycle_index + 1) % Len(unique_contexts)
             target == unique_contexts[index + 1]
         IN  IF target.hwnd # 0
             THEN /\ cycle_index' = CycleIndexAfterRestore(index, ok)
                  /\ activated' = Append(activated, [index |-> index, ok |-> ok])
             ELSE /\ cycle_index' = index
                  /\ UNCHANGED activated
    /\ UNCHANGED <<file, now, wvars, gvars, failures_left, polls, probed, before,
                   raced, wiped, dropped, shape0, view, normalize_call, tvars,
                   dvars, hvars>>

\* pynput delivers a press of key: the key goes down, or it is held down and
\* the keyboard repeats it
OnPress ==
    \E key \in PhysicalKeys, gap \in BOOLEAN :
       LET keys == ActiveAfterPress(active_keys, key, gap)
           main == normalize_key(key)
       IN  /\ \A k \in Triggered(keys) : emitted[k] < MaxEmits
           /\ active_keys' = keys
           /\ held_keys' = held_keys \cup {key}
           /\ emitted' = [k \in MainKeys |->
                            (IF k = main /\ key \notin held_keys THEN 0 ELSE emitted[k])
                            + (IF k \in Triggered(keys) THEN 1 ELSE 0)]
           /\ UNCHANGED <<file, now, wvars, gvars, failures_left, polls, probed,
                          before, raced, wiped, dropped, shape0, view,
                          normalize_call, tvars, dvars, cvars>>

\* pynput delivers the release of a key that is down
OnRelease ==
    \E key \in held_keys :
       /\ active_keys' = active_keys \ {normalize_key(key)}
       /\ held_keys' = held_keys \ {key}
       /\ emitted' = [emitted EXCEPT ![normalize_key(key)] = 0]
       /\ UNCHANGED <<file, now, wvars, gvars, failures_left, polls, probed,
                      before, raced, wiped, dropped, shape0, view,
                      normalize_call, tvars, dvars, cvars>>

(***************************************************************************)
(* The environment                                                         *)
(***************************************************************************)
\* the log file is removed from outside (the case "corrupted or missing")
Remove ==
    /\ file.kind # "missing"
    /\ failures_left > 0
    /\ failures_left' = failures_left - 1
    /\ file' = Missing
    /\ raced' = RacedBy("env")
    /\ wiped' = {}
    /\ UNCHANGED <<now, wvars, gvars, polls, probed, before, dropped,
                   ivars, tvars>>

(***************************************************************************)
(* Specifications                                                          *)
(***************************************************************************)
StartWatcher(w) == IF w = SW THEN StartStandalone ELSE StartThread

\* the write of an append
Write(w) ==
    \/ Open(w)
    \/ Dump(w)

Watcher(w) ==
    \/ StartWatcher(w)
    \/ Poll(w)
    \/ Write(w)

Gui ==
    \/ ClearOpen
    \/ ClearDump

\* both watchers and the GUI share the file ...
Next ==
    \/ \E w \in W : Watcher(w)
    \/ Gui

\* ... on a file system that does not fail
Init == Start /\ failures_left = 0

Spec == Init /\ [][Next]_vars

\* one watcher as the only process that touches the file ...
Alone(w) == \A v \in W \ {w} : pc[v] = "off"

NextSolo ==
    \/ \E w \in W : Alone(w) /\ StartWatcher(w)
    \/ \E w \in W : Alone(w) /\ PollRecorded(w)
    \/ \E w \in W : Alone(w) /\ Write(w)
    \/ Remove

\* ... in an environment that fails up to MaxFaults times
InitSolo == Start /\ failures_left = MaxFaults

SpecSolo == InitSolo /\ [][NextSolo]_vars

\* the GUI's thread as the only watcher, and the GUI closing
Thread ==
    \/ StartThread
    \/ TestRunning
    \/ PollRecorded(GW)
    \/ Write(GW)

NextStop ==
    \/ Thread
    \/ Stop

InitStop == Start /\ failures_left = MaxFaults

\* the thread is scheduled as long as it has something to do
SpecStop == InitStop /\ [][NextStop]_vars /\ WF_vars(Thread)

\* normalize_window_title on its own, called once with one of the titles
InitTitle ==
    /\ Idle
    /\ shape0 = [kind |-> "ok", n |-> 0]
    /\ file = FileOf(shape0)
    /\ failures_left = 0
    /\ view = NoView
    /\ pinned_file = NoPinnedFile
    /\ normalize_call \in {[title |-> t, process |-> p, kt |-> Pending] :
                              t \in Titles, p \in {CodeExe, NotepadExe}}

NextTitle == Normalize

SpecTitle == InitTitle /\ [][NextTitle]_vars

\* the GUI showing a log that was written a second ago
InitView ==
    /\ Idle
    /\ shape0 = [kind |-> "ok", n |-> 0]
    /\ view \in Views
    /\ file = Stored(ViewLog(view), 1)
    /\ failures_left = 0
    /\ normalize_call = NoCall
    /\ pinned_file = NoPinnedFile

NextView == TimerUi

SpecView == InitView /\ [][NextView]_vars

\* the GUI with its dock: the pinned applications are loaded, the timeline is
\* built from the log, applications are pinned and unpinned
InitDock ==
    /\ Idle
    /\ shape0 = [kind |-> "ok", n |-> 0]
    /\ view = DockView
    /\ file = Stored(DockLog, 1)
    /\ failures_left = 0
    /\ normalize_call = NoCall
    /\ \E f \in PinnedFiles : pinned_file = f

NextDock ==
    \/ LoadPinnedApps
    \/ TimerUi
    \/ PinApp
    \/ DockItemUnpin

SpecDock == InitDock /\ [][NextDock]_vars

\* the GUI with its watcher thread: the thread appends to the log, the timer
\* refreshes the view, the user clears the history
NextGui ==
    \/ StartThread
    \/ Poll(GW)
    \/ Write(GW)
    \/ TimerUi
    \/ Gui

\* the log holds no entry of an earlier run
InitGui == Start /\ shape0.n = 0 /\ failures_left = MaxFaults

SpecGui == InitGui /\ [][NextGui]_vars

\* the GUI showing a log, and the hotkey that cycles through its contexts
InitCycle == InitView /\ view.pad = 0

NextCycle ==
    \/ TimerUi
    \/ CycleHistory

SpecCycle == InitCycle /\ [][NextCycle]_vars

\* the listener of the hotkey manager
InitHotkey == Init /\ shape0 = [kind |-> "ok", n |-> 0]

NextHotkey ==
    \/ OnPress
    \/ OnRelease

SpecHotkey == InitHotkey /\ [][NextHotkey]_vars

\* the round trip through memory of a stored list of pinned applications
InitPins ==
    /\ Idle
    /\ shape0 = [kind |-> "ok", n |-> 0]
    /\ view = NoView
    /\ file = FileOf(shape0)
    /\ failures_left = 0
    /\ normalize_call = NoCall
    /\ \E l \in PinLists(PinsOf(ViewLog(StoredView))) :
          pinned_file = PinnedFile(StoredText(l))

NextPins == LoadSave

SpecPins == InitPins /\ [][NextPins]_vars

(***************************************************************************)
(* Properties                                                              *)
(***************************************************************************)
Min(a, b) == IF a < b THEN a ELSE b
Take(s, n) == SubSeq(s, 1, Min(Len(s), n))

\* the file has been written by one of the processes (files found at start-up
\* carry modification time 0, the clock starts at 1)
Written == file.mtime >= 1

\* watcher w completes the write of its append in this step
Appended(w) == pc[w] = "dump" /\ pc'[w] = "poll" /\ file'.kind = "ok"

\* C1: after any completed write of the log (an append by either watcher, a
\* clear_history, the reset at start-up) the persisted log has at most
\* MAX_LOG_ENTRIES entries, whatever its length was before
C1_LogWithinCapacity ==
    (file.kind = "ok" /\ Written) => Len(file.content) <= MAX_LOG_ENTRIES

\* an append to a log that was over capacity has been written out
C1_Witness ==
    /\ file.kind = "ok" /\ Written
    /\ Len(file.content) = MAX_LOG_ENTRIES
    /\ Len(AsLog(file0)) = MAX_LOG_ENTRIES + 1

\* C4: when no other process writes the file between the read and the write
\* of an append, the log after the append is the new entry followed by the
\* first min(n, 199) entries of what was persisted before it
C4_AppendKeepsNewest ==
    [][\A w \in W :
          Appended(w) /\ ~raced[w] =>
             LET old == AsLog(before[w].file) IN
             file'.content =
                <<log_entry[w]>> \o Take(old, MAX_LOG_ENTRIES - 1)]_vars

\* an append has dropped the two oldest entries of a log of 201
C4_Witness ==
    /\ file.kind = "ok" /\ Written
    /\ Len(AsLog(file0)) = MAX_LOG_ENTRIES + 1
    /\ Len(file.content) = MAX_LOG_ENTRIES
    /\ file.content[1].timestamp >= 1
    /\ file.content[2] = OldEntry(1)
    /\ file.content[MAX_LOG_ENTRIES] = OldEntry(MAX_LOG_ENTRIES - 1)
    /\ \A w \in W : ~raced[w]

\* C6: if clear_history completes while a watcher that has logged before is
\* between two polls, and nothing else writes the file, the watcher's next
\* append leaves a log that holds exactly the one new entry
C6_AppendAfterClear ==
    [][\A w \in W :
          Appended(w) /\ w \in wiped => file'.content = <<log_entry[w]>>]_vars

\* a watcher that started on a long log is about to write its first append
\* after a clear
C6_Witness ==
    \E w \in W :
       /\ pc[w] = "dump" /\ w \in wiped
       /\ Len(AsLog(file0)) >= MAX_LOG_ENTRIES - 1
       /\ polls[w] >= 2

(***************************************************************************)
(* Properties of one watcher running alone (SpecSolo)                      *)
(***************************************************************************)
PairOf(entry) == <<entry.title, entry.process>>
Pairs(log)    == [i \in 1..Len(log) |-> PairOf(log[i])]
Reverse(s)    == [i \in 1..Len(s) |-> s[Len(s) + 1 - i]]
IsTitled(pair) == pair[1] # ""
Titled(s)     == SelectSeq(s, IsTitled)

\* one element per maximal run of equal consecutive elements
RECURSIVE RunCompress(_)
RunCompress(s) ==
    IF Len(s) <= 1 THEN s
    ELSE LET front == RunCompress(SubSeq(s, 1, Len(s) - 1)) IN
         IF s[Len(s)] = s[Len(s) - 1] THEN front ELSE Append(front, s[Len(s)])

NoFailure == failures_left = MaxFaults

\* watcher w obtains a pair from its probe in this step; LastProbe(w)' is it
Polled(w)    == Len(probed'[w]) = Len(probed[w]) + 1
LastProbe(w) == probed[w][Len(probed[w])]

Notepad == <<"Notepad", "notepad.exe">>
Calc    == <<"Calc", "calc.exe">>

\* C2, as stated: between iterations the log holds one entry per maximal run
\* of identical consecutive probed pairs, newest first, and at most 200
C2_OneEntryPerRun ==
    \A w \in W :
       (pc[w] = "poll" /\ NoFailure /\ AsLog(file0) = <<>>) =>
          /\ Pairs(AsLog(file)) = Reverse(RunCompress(probed[w]))
          /\ Len(AsLog(file)) <= MAX_LOG_ENTRIES

\* C2, amended: the runs are those of the probes that carry a title (an
\* untitled probe is skipped and does not break a run); their entries,
\* newest first, stand before the entries found at start-up, and once the
\* watcher has written the whole is cut to the 200 newest
C2_OneEntryPerTitledRun ==
    \A w \in W :
       (pc[w] = "poll" /\ NoFailure) =>
          LET new == Reverse(RunCompress(Titled(probed[w])))
              old == Pairs(AsLog(file0))
          IN  Pairs(AsLog(file)) =
                 IF new = <<>> THEN old ELSE Take(new \o old, MAX_LOG_ENTRIES)

\* titled, untitled, same titled probe, on a log that was over capacity
C2_Witness ==
    \E w \in W :
       /\ pc[w] = "poll" /\ NoFailure
       /\ Len(probed[w]) = 3
       /\ IsTitled(probed[w][1])
       /\ ~IsTitled(probed[w][2])
       /\ probed[w][3] = probed[w][1]
       /\ Len(AsLog(file0)) = MAX_LOG_ENTRIES + 1
       /\ Written /\ Len(AsLog(file)) = MAX_LOG_ENTRIES

\* C3: one freshly started watcher, a log that is empty at the start, no
\* failure, titled probes only, at most 200 runs: between iterations the log
\* is the run-compressed probe sequence, newest first
C3_RunCompressedLog ==
    \A w \in W :
       ( /\ pc[w] = "poll" /\ NoFailure
         /\ AsLog(file0) = <<>>
         /\ Titled(probed[w]) = probed[w]
         /\ Len(RunCompress(probed[w])) <= MAX_LOG_ENTRIES ) =>
          Pairs(AsLog(file)) = Reverse(RunCompress(probed[w]))

\* Notepad, Notepad, Calc has given [Calc, Notepad]
C3_Witness ==
    \E w \in W :
       /\ pc[w] = "poll" /\ NoFailure
       /\ file0 = Stored(<<>>, 0)
       /\ probed[w] = <<Notepad, Notepad, Calc>>
       /\ Pairs(AsLog(file)) = <<Calc, Notepad>>

\* C5: a poll whose title is empty or whose pair equals last_window ends the
\* iteration at once: nothing is written, last_window is as before
C5_IdlePollHasNoEffect ==
    [][\A w \in W :
          ( /\ Polled(w)
            /\ \/ LastProbe(w)'[1] = ""
               \/ LastProbe(w)' = last_window[w] ) =>
             /\ pc'[w] = "poll"
             /\ file' = file
             /\ last_window' = last_window]_vars

\* a logged window, the same window again, then no window
C5_Witness ==
    \E w \in W :
       /\ pc[w] = "poll" /\ NoFailure
       /\ Len(probed[w]) = 3
       /\ IsTitled(probed[w][1])
       /\ probed[w][2] = probed[w][1]
       /\ ~IsTitled(probed[w][3])
       /\ last_window[w] = probed[w][1]
       /\ Len(AsLog(file)) = Len(AsLog(file0)) + 1

\* C7, as stated: a pre-append read that meets a missing, unreadable or
\* malformed file yields the empty log (the list to write is the new entry
\* alone) and raises nothing
C7_ReadFailureYieldsEmptyLog ==
    \A w \in W :
       before[w].exc # "none" =>
          /\ pc[w] \in {"open", "dump"}
          /\ activity_log[w] = <<log_entry[w]>>

\* C8, as stated: no I/O error met during an append ends the polling loop
C8_IoErrorNeverStopsLoop ==
    \A w \in W : pc[w] # "dead:read"

\* C9: once the write of an append has failed, last_window is the probed pair
\* and, for as long as the probes keep returning that pair, no write is
\* attempted and the log holds nothing more than it held after the failure
C9_FailedWriteNotRetried ==
    \A w \in W :
       dropped[w] # NoDrop =>
          /\ last_window[w] = dropped[w].window
          /\ pc[w] \notin {"open", "dump"}
          /\ AsLog(file) \in {<<>>, dropped[w].log}

\* the write failed and a later poll has returned the same pair
C9_Witness ==
    \E w \in W :
       /\ dropped[w] # NoDrop
       /\ pc[w] = "poll"
       /\ Len(probed[w]) >= 2
       /\ LastProbe(w) = dropped[w].window
       /\ probed[w][Len(probed[w]) - 1] = dropped[w].window

LookupFailed(w) == lookup[w] \in {NoSuchProcess, AccessDenied}

\* C11: when the name lookup fails with NoSuchProcess or AccessDenied the
\* probe does not fail: it yields the pair (title, "unknown"), which is
\* compared with last_window like any other pair and, when it is logged, gives
\* an entry with the probed title and the process name "unknown"
C11_LookupFailureLogsUnknown ==
    [][\A w \in W :
         (Polled(w) /\ LookupFailed(w)') =>
            LET pair == LastProbe(w)' IN
            /\ pair[2] = "unknown"
            /\ pc'[w] # "dead:probe"
            /\ (pc'[w] \in {"open", "dead:read"}) =
                  (pair[1] # "" /\ pair # last_window[w])
            /\ pc'[w] = "open" =>
                  /\ log_entry'[w].title = pair[1]
                  /\ log_entry'[w].process = "unknown"
                  /\ current_window'[w] = pair
                  /\ Head(activity_log'[w]) = log_entry'[w]]_vars

\* an entry with process "unknown" has been written and is the newest of the
\* log; a later probe with the same failed lookup logs nothing
C11_Witness ==
    \E w \in W :
        /\ pc[w] = "poll"
        /\ LookupFailed(w)
        /\ Len(probed[w]) >= 2
        /\ last_window[w] = <<"Notepad", "unknown">>
        /\ LastProbe(w) = last_window[w]
        /\ file.kind = "ok" /\ Len(file.content) >= 1
        /\ PairOf(file.content[1]) = last_window[w]

\* run() of the thread is over
Returned == pc[GW] \in {"done", "dead:start"}

\* C12: once WatcherThread.stop() has been called the thread makes at most
\* one more probe and completes at most one more append, and run() returns,
\* wherever in the loop the call found it
C12_StopWithinOneCycle ==
    /\ [](late.polls <= 1 /\ late.appends <= 1 /\ late.polls + late.appends <= 2)
    /\ [][Returned => late' = late /\ file' = file /\ Returned']_vars
    /\ (~running ~> Returned)

\* stop() arrived between the test of the flag and the probe: the thread has
\* made that poll, written its entry, and returned
C12_Witness ==
    /\ ~running
    /\ pc[GW] = "done"
    /\ late = [polls |-> 1, appends |-> 1]
    /\ file.kind = "ok" /\ Len(file.content) >= 1
    /\ PairOf(file.content[1]) = last_window[GW]

\* watcher w makes its pre-append read in this step
Reads(w) == pc[w] = "poll" /\ pc'[w] = "open"

\* watcher v has opened the file for writing and not yet dumped into it, and
\* nothing else has written since v read the file: the log persisted before
\* v's write is the one v read, the log persisted by it is activity_log[v]
Overwriting(v) == pc[v] = "dump" /\ ~raced[v]

\* C13: a pre-append read that runs while a watcher is overwriting the file
\* obtains either the complete log persisted before that write or the
\* complete log persisted by it
C13_ReaderSeesCompleteLog ==
    [][\A w \in W : \A v \in W \ {w} :
         Reads(w) /\ Overwriting(v) =>
            AsLog(before'[w].file) \in {AsLog(before[v].file), activity_log[v]}]_vars

\* C14: an append writes the list computed from its own read, whatever has
\* been written to the file since that read: nothing orders or merges the
\* appends of the two watchers ...
C14_RacedAppendOverwrites ==
    [][\A w \in W :
         Appended(w) /\ raced[w] =>
            file'.content =
               <<log_entry[w]>> \o Take(AsLog(before[w].file), MAX_LOG_ENTRIES - 1)]_vars

\* ... so that an update can be lost: both watchers have completed one append
\* each, of different pairs, without error and without a clear, on a log that
\* was empty, and the log holds one entry
C14_Witness ==
    /\ file0 = Stored(<<>>, 0)
    /\ gpc = "idle" /\ last_mod_time = 0
    /\ \A w \in W : pc[w] = "poll" /\ polls[w] = 1 /\ last_window[w] # None
    /\ last_window[SW] # last_window[GW]
    /\ file.kind = "ok" /\ Len(file.content) = 1

\* the call of normalize_window_title has returned
Normalized == normalize_call.kt # Pending

\* C15: normalize_window_title returns a string for every (title, process),
\* the same for the same arguments; a title without "Visual Studio Code" is
\* returned unchanged when it has at most 40 characters, as its first 40
\* characters followed by "..." otherwise, so that the result has at most 43
C15_NormalizeTruncates ==
    Normalized =>
        LET title == normalize_call.title
            kt    == normalize_call.kt
        IN  /\ DOMAIN kt = 1..Len(kt)
            /\ kt = normalize_window_title(title, normalize_call.process)
            /\ ~Contains(title, VisualStudioCode) =>
                  /\ Len(title) <= 40 => kt = title
                  /\ Len(title) > 40 =>
                        /\ Len(kt) = 43
                        /\ \A i \in 1..40 : kt[i] = title[i]
                        /\ \A i \in 41..43 : kt[i] = "."
                  /\ Len(kt) <= 43

\* a title of 41 characters has been cut
C15_Witness ==
    /\ Normalized
    /\ normalize_call.title = Concat(<<Pad, Pad, <<"a">>>>)
    /\ normalize_call.kt = Pad \o Pad \o Ellipsis

\* the text between the first " - " of title and the next one, or the end
SecondSegment(title) ==
    LET rest == SubSeq(title, Find(title, Separator) + Len(Separator), Len(title))
        j    == Find(rest, Separator)
    IN  IF j = 0 THEN rest ELSE SubSeq(rest, 1, j - 1)

\* r is s without the whitespace around it
IsStripOf(r, s) ==
    /\ r # <<>> => r[1] \notin Whitespace /\ r[Len(r)] \notin Whitespace
    /\ \E i \in 0..(Len(s) - Len(r)) :
          /\ SubSeq(s, i + 1, i + Len(r)) = r
          /\ \A j \in (1..i) \cup ((i + Len(r) + 1)..Len(s)) : s[j] \in Whitespace

\* title with its first segment replaced by piece
WithFirstSegment(title, piece) ==
    piece \o SubSeq(title, Find(title, Separator), Len(title))

IsEditorTitle(title) ==
    Contains(title, VisualStudioCode) /\ Contains(title, Separator)

\* C16: for a title that contains "Visual Studio Code" and has at least two
\* segments between " - ", normalize_window_title returns the second segment
\* without the whitespace around it; so editor titles that differ in their
\* first segment only have the same (process, normalized title) key
C16_EditorTitleGivesSecondSegment ==
    Normalized /\ IsEditorTitle(normalize_call.title) =>
        LET title   == normalize_call.title
            process == normalize_call.process
        IN  /\ IsStripOf(normalize_call.kt, SecondSegment(title))
            /\ \A piece \in Pieces :
                  /\ ~Contains(piece, Separator)
                  /\ IsEditorTitle(WithFirstSegment(title, piece))
                  =>
                      Key(Chars(process), normalize_window_title(
                                      WithFirstSegment(title, piece), process))
                        = Key(Chars(process), normalize_call.kt)

\* "a -  b - Visual Studio Code" has given "b"
C16_Witness ==
    /\ Normalized
    /\ Len(Split(normalize_call.title, Separator)) = 3
    /\ Contains(Split(normalize_call.title, Separator)[3], VisualStudioCode)
    /\ Split(normalize_call.title, Separator)[2] = <<" ", "b">>
    /\ normalize_call.kt = <<"b">>

\* the GUI shows the log that the file holds
Shown == file.kind = "ok" /\ last_mod_time = file.mtime /\ log_data = file.content

\* the (process, normalized title) key of an entry
EntryKey(e) == <<e.process, normalize_window_title(Chars(e.title), e.process)>>
KeysOf(log) == [i \in 1..Len(log) |-> EntryKey(log[i])]

\* the places in the log of the entries whose title is not ignored
ValidPlaces(log) == {i \in 1..Len(log) : log[i].title \notin IGNORE_TITLES}

\* the k-th smallest element of a set of numbers
Nth(S, k) == CHOOSE i \in S : Cardinality({j \in S : j < i}) = k - 1

\* the place in the log of an entry, or of the entry a group stands for:
\* the entries of the logs shown carry their place as timestamp
PlaceOf(e) == 0 - e.timestamp

\* C17: the list of unique recent contexts has at most 3 entries, and no two
\* of them have the same (process, normalized title) key
C17_ContextsFewAndDistinct ==
    /\ Len(unique_contexts) <= 3
    /\ \A i, j \in 1..Len(unique_contexts) :
          i < j => /\ EntryKey(unique_contexts[i]) # EntryKey(unique_contexts[j])
                   /\ <<unique_contexts[i].process, unique_contexts[i].normalized_title>>
                        # <<unique_contexts[j].process, unique_contexts[j].normalized_title>>

\* three contexts out of a log with four keys, the newest two entries of
\* which have the same key
C17_Witness ==
    /\ Shown
    /\ Len(unique_contexts) = 3
    /\ Len(file.content) > MAX_RECENT_ITEMS
    /\ EntryKey(file.content[1]) = EntryKey(file.content[2])
    /\ file.content[1].title # file.content[2].title
    /\ Cardinality({EntryKey(file.content[i]) : i \in 1..4}) = 3

\* the contexts are the entries at the first (up to 3) places of firsts
\* that are new for their key there, with the normalized title added
ContextsAre(log, keys, firsts) ==
    /\ Len(unique_contexts) =
          (IF Cardinality(firsts) < 3 THEN Cardinality(firsts) ELSE 3)
    /\ \A k \in 1..Len(unique_contexts) :
          LET i == Nth(firsts, k) IN
          unique_contexts[k] = WithNormalizedTitle(log[i], keys[i][2])

\* C18 as stated: the contexts are the newest entries of the first (up to 3)
\* distinct keys met from index 0 on among the entries whose title is not
\* ignored, none has an ignored title, and each is the lowest-index entry of
\* the log with its key
C18_ContextsAreNewestOfKey ==
    Shown =>
        LET log    == file.content
            keys   == KeysOf(log)
            valid  == ValidPlaces(log)
            firsts == {i \in valid : \A j \in valid : j < i => keys[j] # keys[i]}
        IN  /\ ContextsAre(log, keys, firsts)
            /\ \A k \in 1..Len(unique_contexts) :
                  /\ unique_contexts[k].title \notin IGNORE_TITLES
                  /\ \A j \in 1..Len(log) :
                        keys[j] = EntryKey(unique_contexts[k])
                            => PlaceOf(unique_contexts[k]) <= j

\* C18 (amended): ... and each is the lowest-index entry with its key among
\* the entries of the log whose title is not ignored
C18_ContextsAreNewestValidOfKey ==
    Shown =>
        LET log    == file.content
            keys   == KeysOf(log)
            valid  == ValidPlaces(log)
            firsts == {i \in valid : \A j \in valid : j < i => keys[j] # keys[i]}
        IN  /\ ContextsAre(log, keys, firsts)
            /\ \A k \in 1..Len(unique_contexts) :
                  /\ unique_contexts[k].title \notin IGNORE_TITLES
                  /\ \A j \in valid :
                        keys[j] = EntryKey(unique_contexts[k])
                            => PlaceOf(unique_contexts[k]) <= j

\* the newest entry has an ignored title, and the key of the next one,
\* which is a context
C18_Witness ==
    /\ Shown
    /\ Len(file.content) >= 3
    /\ file.content[1].title \in IGNORE_TITLES
    /\ EntryKey(file.content[1]) = EntryKey(file.content[2])
    /\ Len(unique_contexts) = 3
    /\ PlaceOf(unique_contexts[1]) = 2

\* the places of the entries that update_timeline looks at: the first
\* MAX_RECENT_ITEMS entries whose title is not ignored
TimelinePlaces(log) ==
    LET valid == ValidPlaces(log) IN
    {i \in valid : Cardinality({j \in valid : j <= i}) <= MAX_RECENT_ITEMS}

\* the places that group g of the timeline extends over: from the entry it
\* stands for to the last entry looked at before the next group
Extent(log, g) ==
    LET places == TimelinePlaces(log)
        from   == PlaceOf(grouped_history[g])
        next   == IF g < Len(grouped_history)
                  THEN PlaceOf(grouped_history[g + 1])
                  ELSE Len(log) + 1
        inside == {i \in places : from <= i /\ i < next}
    IN  from .. (CHOOSE i \in inside : \A j \in inside : j <= i)

GroupKey(group) == <<group.process, group.title>>

\* C19 as stated: only strictly adjacent same-key entries of the log are
\* coalesced, so that no group extends over an entry of the log with another
\* key, ignored or not (and consecutive groups have different keys)
C19_GroupsAreRunsOfLog ==
    Shown =>
        LET log  == file.content
            keys == KeysOf(log)
        IN  /\ \A g \in 1..Len(grouped_history) :
                  \A i \in Extent(log, g) : keys[i] = GroupKey(grouped_history[g])
            /\ \A g \in 1..(Len(grouped_history) - 1) :
                  GroupKey(grouped_history[g]) # GroupKey(grouped_history[g + 1])

\* the sequence of the elements of s at the places in S, in order
Pick(s, S) == [k \in 1..Cardinality(S) |-> s[Nth(S, k)]]

\* C19 (amended): the groups are the maximal runs of same-key entries among
\* the first MAX_RECENT_ITEMS entries whose title is not ignored: runs
\* separated by a not ignored entry with another key stay separate, runs
\* separated by ignored entries only are one group
C19_GroupsAreRunsOfValidEntries ==
    Shown =>
        LET log  == file.content
            keys == KeysOf(log)
        IN  [g \in 1..Len(grouped_history) |-> GroupKey(grouped_history[g])]
              = RunCompress(Pick(keys, TimelinePlaces(log)))

\* the log A, A, B, A, ... with its groups A, B, A, ...
C19_Witness ==
    /\ Shown
    /\ Len(file.content) >= 4
    /\ ValidPlaces(file.content) = 1..Len(file.content)
    /\ EntryKey(file.content[1]) = EntryKey(file.content[2])
    /\ EntryKey(file.content[3]) # EntryKey(file.content[1])
    /\ EntryKey(file.content[4]) = EntryKey(file.content[1])
    /\ Len(grouped_history) >= 3
    /\ PlaceOf(grouped_history[1]) = 1
    /\ PlaceOf(grouped_history[2]) = 3
    /\ PlaceOf(grouped_history[3]) = 4

\* C20: each group of the timeline carries the timestamp, the window handle
\* and the full title of the first entry of its run, and only the first
\* MAX_RECENT_ITEMS entries of the list given to update_timeline count: there
\* are at most MAX_RECENT_ITEMS groups and each stands for one of those entries
C20_GroupsCarryFirstOfRun ==
    Shown =>
        LET log    == file.content
            keys   == KeysOf(log)
            places == TimelinePlaces(log)
            starts == {i \in places :
                          \A j \in places :
                              (j < i /\ \A h \in places : ~(j < h /\ h < i))
                                  => keys[j] # keys[i]}
        IN  /\ Len(grouped_history) <= MAX_RECENT_ITEMS
            /\ Len(grouped_history) = Cardinality(starts)
            /\ \A g \in 1..Len(grouped_history) :
                  LET i == Nth(starts, g) IN
                  /\ grouped_history[g].timestamp = log[i].timestamp
                  /\ grouped_history[g].hwnd = log[i].hwnd
                  /\ grouped_history[g].full_title = log[i].title
                  /\ GroupKey(grouped_history[g]) = keys[i]

\* more than MAX_RECENT_ITEMS entries that each start a run, and as many
\* groups as update_timeline looks at entries
C20_Witness ==
    /\ Shown
    /\ Len(ValidData(file.content)) > MAX_RECENT_ITEMS
    /\ Len(grouped_history) = MAX_RECENT_ITEMS
    /\ Chars(grouped_history[1].full_title) # grouped_history[1].title

\* update_ui has read the file in this step
UiRead == last_mod_time' # last_mod_time

\* C21: update_ui, with the context deck and the timeline that it builds from
\* the log, leaves the persisted log as it found it
C21_UpdateUiLeavesLog ==
    [][UiRead => file' = file]_vars

\* the GUI has built three contexts and two groups or more from a log in
\* which a title is ignored, and the log is as it was at the start
C21_Witness ==
    /\ Shown
    /\ Len(unique_contexts) = 3
    /\ Len(grouped_history) >= 2
    /\ \E i \in 1..Len(file.content) : file.content[i].title \in IGNORE_TITLES
    /\ file = Stored(ViewLog(view), 1)

\* C22: pin_app with four applications pinned shows the warning and changes
\* neither the list in memory nor the file; and from a store of at most four
\* entries the list never has more than four, whatever is pinned and unpinned
C22_DockHoldsAtMostFour ==
    /\ Len(pinned_apps) <= MaxPinned
    /\ (dock_call.op = "pin" /\ Len(dock_call.apps) = MaxPinned) =>
          /\ dock_call.outcome = "warned"
          /\ pinned_apps = dock_call.apps
          /\ pinned_file = dock_call.store

\* pin_app has been refused on a full dock
C22_Witness ==
    /\ dock_call.op = "pin"
    /\ dock_call.outcome = "warned"
    /\ Len(pinned_apps) = MaxPinned
    /\ pinned_file.text = StoredText(pinned_apps)

\* C23: unpinning slot i, i below the length of the list, removes entry i and
\* no other, keeps the order of the rest and, when the save has not raised,
\* leaves the result in the file; for i at or beyond the length the list and
\* the file stay as they are and the handler returns
C23_UnpinRemovesSlot ==
    dock_call.op = "unpin" =>
        LET i   == dock_call.arg
            old == dock_call.apps
        IN  IF i < Len(old)
            THEN /\ Len(pinned_apps) = Len(old) - 1
                 /\ \A k \in 1..Len(pinned_apps) :
                       pinned_apps[k] = old[IF k <= i THEN k ELSE k + 1]
                 /\ dock_call.outcome = "returned" =>
                       pinned_file = PinnedFile(StoredText(pinned_apps))
            ELSE /\ pinned_apps = old
                 /\ pinned_file = dock_call.store
                 /\ dock_call.outcome = "returned"

\* the second of three applications has been unpinned and the other two saved
C23_Witness ==
    /\ dock_call.op = "unpin"
    /\ dock_call.arg = 1
    /\ Len(dock_call.apps) = 3
    /\ dock_call.apps[2] # dock_call.apps[3]
    /\ dock_call.outcome = "returned"
    /\ pinned_apps = <<dock_call.apps[1], dock_call.apps[3]>>

\* C24: load_pinned_apps followed by save_pinned_apps, on a stored list of 0
\* to 4 entries, gives in memory the sequence that was stored and leaves the
\* stored text as it was; a second round trip changes neither
C24_RoundTripKeepsPins ==
    dock_call.op = "load_save" =>
        /\ pinned_file = dock_call.store
        /\ pinned_file.text = StoredText(pinned_apps)
        /\ dock_call.n = 2 => pinned_apps = dock_call.apps

\* a list of four entries has gone through the round trip twice
C24_Witness ==
    /\ dock_call.op = "load_save"
    /\ dock_call.n = 2
    /\ Len(pinned_apps) = MaxPinned
    /\ pinned_apps[1] # pinned_apps[2]
    /\ pinned_apps[1].hwnd # pinned_apps[4].hwnd

\* C29: after pin_app or on_dock_item_unpin has returned the file holds the
\* list in memory, and after a failed write the list in memory is the one
\* from before the call
C29_MemoryAndFileAgree ==
    dock_call.op \in {"pin", "unpin"} =>
        /\ dock_call.outcome = "returned" =>
              load_pinned_apps(pinned_file) = pinned_apps
        /\ dock_call.outcome = "raised" => pinned_apps = dock_call.apps

\* C25: whenever update_ui would skip because of the modification time, the
\* log on disk is the content that the GUI parsed last
C25_SkipShowsLog ==
    (gpc = "idle" /\ file.kind = "ok" /\ file.mtime = last_mod_time) =>
        log_data = file.content

\* clear_history has completed: in a run without the timer only the
\* update_ui at the end of clear_history sets _last_mod_time, to the time of
\* the file that it has written
Cleared == gpc = "idle" /\ last_mod_time >= 1

\* C26: once clear_history has completed, the entries of earlier runs, which
\* were in the log before the clear, are never in the log again
C26_ClearedEntriesStayGone ==
    (Cleared /\ file.kind = "ok") =>
        \A i \in 1..Len(file.content) : file.content[i].timestamp >= 1

\* no two neighbours in the log have the same (title, process) pair
NoAdjacentPair(log) ==
    \A i \in 1..(Len(log) - 1) : PairOf(log[i]) # PairOf(log[i + 1])

C27_CycleAdvances ==
    Len(unique_contexts) >= 2 =>
        \A k \in 1..(Len(activated) - 1) :
           (activated[k].ok /\ activated[k + 1].ok) =>
               activated[k + 1].index = (activated[k].index + 1) % Len(unique_contexts)

\* C30: between the press of the main key of a registered hotkey and its
\* release the action of the hotkey is emitted at most once
C30_EmitsOncePerPress ==
    \A k \in MainKeys : emitted[k] <= 1
====
